---- MODULE Spec2Model ----
(***************************************************************************)
(* Padre Gino's pizza API (src/server.js): the order workflow              *)
(* (POST /api/order, GET /api/order, GET /api/past-order/:order_id) and    *)
(* the daily pick (GET /api/pizza-of-the-day), over one shared store       *)
(* client.                                                                 *)
(*                                                                         *)
(* Strings are sequences of one-character strings, so that the composite   *)
(* key `${id}_${size}` is a real concatenation and toLowerCase a real map. *)
(* The store behind `db` is one SQL connection: BEGIN/COMMIT/ROLLBACK act  *)
(* on the connection, a write outside a transaction is committed at once,  *)
(* and the result of an INSERT carries the generated row id as lastID.     *)
(***************************************************************************)
EXTENDS Integers, Sequences, FiniteSets, TLC

VARIABLES
    committed,   \* the store's durable rows: [orders, details]
    working,     \* the connection's view: committed rows plus the open transaction's
    txOpen,      \* whether the connection is inside a transaction
    slots,       \* the request handlers that may run (one: sequential, two: concurrent)
    pc,          \* per slot: where createOrder stands
    cart,        \* per slot: req.body.cart
    rid,         \* per slot: the number of the request being served (ghost)
    orderId,     \* per slot: const orderId = result.lastID
    pending,     \* per slot: Object.values(mergedCart) still to insert
    inflight,    \* per slot: statements issued and not yet answered
    log,         \* per slot: every statement issued by the request, in order (ghost)
    trace,       \* per slot: ghost facts about the request (see NoTrace)
    resp,        \* per slot: the HTTP response sent
    nreq,        \* number of order requests received so far
    readResp,    \* the Order Reader's last response
    day,         \* clock: whole UTC days since the epoch
    msOfDay,     \* clock: milliseconds into the current UTC day
    catalogSize, \* number of rows of pizza_types
    pick,        \* the last response of GET /api/pizza-of-the-day
    prevPick     \* the response before it

vars == <<committed, working, txOpen, slots, pc, cart, rid, orderId, pending,
          inflight, log, trace, resp, nreq, readResp, day, msOfDay,
          catalogSize, pick, prevPick>>

orderVars == <<committed, working, txOpen, slots, pc, cart, rid, orderId,
               pending, inflight, log, trace, resp, nreq>>
pickVars == <<day, msOfDay, catalogSize, pick, prevPick>>

-----------------------------------------------------------------------------
(* Bounds *)

MaxCart == 3
MaxRequests == 2
MaxDays == 3
MaxCatalog == 3

-----------------------------------------------------------------------------
(* Strings *)

None == <<>>   \* a missing (undefined) or empty value: falsy in `!id || !size`

Lower ==
    [c \in {"a", "b", "_", "M", "m", "L", "l"} |->
        CASE c = "M" -> "m"
          [] c = "L" -> "l"
          [] OTHER -> c]

toLowerCase(s) == [i \in 1..Len(s) |-> Lower[s[i]]]

\* const pizzaId = `${id}_${size}`
PizzaKey(id, size) == id \o <<"_">> \o size

-----------------------------------------------------------------------------
(* Request inputs *)

IdA == <<"a">>
IdAB == <<"a", "_", "b">>
SizeM == <<"M">>
Sizem == <<"m">>
SizeL == <<"L">>
SizeBm == <<"b", "_", "m">>

Line(id, size) == [pizza |-> id, size |-> size]

ValidLines ==
    { Line(IdA, SizeM), Line(IdA, Sizem), Line(IdA, SizeL),
      Line(IdAB, Sizem), Line(IdA, SizeBm) }

BadLines == { Line(None, Sizem), Line(IdA, None) }

Lines == ValidLines \cup BadLines

SeqsUpTo(S, n) == UNION { [1..k -> S] : k \in 0..n }

\* req.body: undefined ("nobody"), or an object whose cart is absent
\* ("missing"), not an array ("notalist"), or an array (possibly empty) of lines
Body(kind, items) == [kind |-> kind, items |-> items]
Carts ==
    {Body("nobody", <<>>), Body("missing", <<>>), Body("notalist", <<>>)}
        \cup { Body("list", c) : c \in SeqsUpTo(Lines, MaxCart) }

\* the carts used where two requests interleave or readers run alongside
FewCarts ==
    { Body("list", c) : c \in
        { <<Line(IdA, SizeM)>>,
          <<Line(IdA, SizeM), Line(IdAB, Sizem)>>,
          <<Line(IdA, None)>>,
          <<>> } }

HasIdAndSize(l) == l.pizza # None /\ l.size # None

-----------------------------------------------------------------------------
(* Cart Normalizer: cart.reduce(...) of createOrder *)

\* the accumulator: the object built so far, as the sequence of its values in
\* insertion order, and whether the reducer has thrown
Acc(thrown, values) == [thrown |-> thrown, values |-> values]

IndexOfKey(values, k) ==
    LET hits == { i \in 1..Len(values) : values[i].pizzaId = k }
    IN IF hits = {} THEN 0 ELSE CHOOSE i \in hits : TRUE

\* a faulty reducer, which does not fold the case of the size
ReduceStepNoFold(acc, item) ==
    IF acc.thrown THEN acc
    ELSE IF item.pizza = None \/ item.size = None THEN Acc(TRUE, <<>>)
    ELSE
        LET k == PizzaKey(item.pizza, item.size)
            i == IndexOfKey(acc.values, k)
        IN IF i = 0
           THEN Acc(FALSE, Append(acc.values, [pizzaId |-> k, quantity |-> 1]))
           ELSE Acc(FALSE, [acc.values EXCEPT ![i].quantity = @ + 1])

\* one call of the reducer
ReduceStep(acc, item) ==
    IF acc.thrown THEN acc
    ELSE IF item.pizza = None \/ item.size = None THEN Acc(TRUE, <<>>)
    ELSE
        LET k == PizzaKey(item.pizza, toLowerCase(item.size))
            i == IndexOfKey(acc.values, k)
        IN IF i = 0
           THEN Acc(FALSE, Append(acc.values, [pizzaId |-> k, quantity |-> 1]))
           ELSE Acc(FALSE, [acc.values EXCEPT ![i].quantity = @ + 1])

RECURSIVE Reduce(_, _)
Reduce(acc, items) ==
    IF items = <<>> THEN acc
    ELSE Reduce(ReduceStep(acc, Head(items)), Tail(items))

\* cart.reduce(..., {}): .values is Object.values(mergedCart)
mergedCart(c) == Reduce(Acc(FALSE, <<>>), c)

-----------------------------------------------------------------------------
(* The store behind db.execute *)

Stmt(kind, oid, key, qty) ==
    [kind |-> kind, order_id |-> oid, pizza_id |-> key, quantity |-> qty]

BeginStmt == Stmt("BEGIN", 0, None, 0)
InsertOrderStmt == Stmt("INSERT_ORDER", 0, None, 0)
InsertDetailStmt(oid, item) ==
    Stmt("INSERT_DETAIL", oid, item.pizzaId, item.quantity)
CommitStmt == Stmt("COMMIT", 0, None, 0)
RollbackStmt == Stmt("ROLLBACK", 0, None, 0)

EmptyRows == [orders |-> {}, details |-> {}]

MaxOf(S) == IF S = {} THEN 0 ELSE CHOOSE x \in S : \A y \in S : y <= x

\* the row id the store generates for a new orders row
NewOrderId(rows) == MaxOf({ o.order_id : o \in rows.orders }) + 1

\* whether the connection can execute the statement at all: BEGIN inside a
\* transaction, or COMMIT/ROLLBACK outside one, is an error
StoreAccepts(stmt) ==
    CASE stmt.kind = "BEGIN" -> ~txOpen
      [] stmt.kind \in {"COMMIT", "ROLLBACK"} -> txOpen
      [] OTHER -> TRUE

\* the rows of the connection's view after a statement written by request `by`
RowsAfter(stmt, by) ==
    CASE stmt.kind = "INSERT_ORDER" ->
            [working EXCEPT !.orders =
                @ \cup {[order_id |-> NewOrderId(working), by |-> by]}]
      [] stmt.kind = "INSERT_DETAIL" ->
            [working EXCEPT !.details =
                @ \cup {[order_id |-> stmt.order_id, pizza_id |-> stmt.pizza_id,
                         quantity |-> stmt.quantity, by |-> by]}]
      [] stmt.kind = "ROLLBACK" -> committed
      [] OTHER -> working

\* the store executes one statement
StoreExecute(stmt, by) ==
    /\ working' = RowsAfter(stmt, by)
    /\ txOpen' = CASE stmt.kind = "BEGIN" -> TRUE
                   [] stmt.kind \in {"COMMIT", "ROLLBACK"} -> FALSE
                   [] OTHER -> txOpen
    /\ committed' =
         IF stmt.kind = "COMMIT" THEN working
         ELSE IF stmt.kind \in {"INSERT_ORDER", "INSERT_DETAIL"} /\ ~txOpen
              THEN RowsAfter(stmt, by)
              ELSE committed

-----------------------------------------------------------------------------
(* POST /api/order: createOrder *)

Response(status, error, oid) ==
    [status |-> status, error |-> error, orderId |-> oid]

NoResponse == Response(0, "", 0)
InvalidOrderData == Response(400, "Invalid order data", 0)
FailedToCreate == Response(500, "Failed to create order", 0)
\* an exception that leaves the handler: the framework's own error reply
FrameworkError == Response(500, "Internal Server Error", 0)
OrderCreated(oid) == Response(200, "", oid)

\* ghost facts about one request
NoTrace ==
    [failedAt |-> "",      \* the step whose error entered the catch block
     failedDetail |-> 0,   \* which detail insert that was
     faults |-> 0,         \* statements of the request the store failed
     genId |-> 0,          \* the row id the store generated for the header
     headerOk |-> FALSE,   \* the header insert was answered
     detailsOk |-> 0,      \* detail inserts answered without error
     merged |-> <<>>,      \* Object.values(mergedCart)
     rollbackOk |-> FALSE] \* the ROLLBACK was executed

\* if (!cart || !Array.isArray(cart) || cart.length === 0)
InvalidCart(c) == c.kind # "list" \/ Len(c.items) = 0

\* the request arrives: the cart check, then the try block
createOrder(r, bodies) ==
    /\ pc[r] \in {"idle", "done"}
    /\ nreq < MaxRequests
    /\ \E c \in bodies :
        /\ cart' = [cart EXCEPT ![r] = c]
        /\ IF c.kind = "nobody"
           \* const { cart } = req.body throws a TypeError
           THEN /\ resp' = [resp EXCEPT ![r] = FrameworkError]
                /\ pc' = [pc EXCEPT ![r] = "done"]
           ELSE IF InvalidCart(c)
           THEN /\ resp' = [resp EXCEPT ![r] = InvalidOrderData]
                /\ pc' = [pc EXCEPT ![r] = "done"]
           ELSE /\ resp' = [resp EXCEPT ![r] = NoResponse]
                /\ pc' = [pc EXCEPT ![r] = "begin"]
    /\ nreq' = nreq + 1
    /\ rid' = [rid EXCEPT ![r] = nreq + 1]
    /\ orderId' = [orderId EXCEPT ![r] = 0]
    /\ pending' = [pending EXCEPT ![r] = <<>>]
    /\ log' = [log EXCEPT ![r] = <<>>]
    /\ trace' = [trace EXCEPT ![r] = NoTrace]
    /\ UNCHANGED <<committed, working, txOpen, slots, inflight, readResp, pickVars>>

\* the statement the handler executes next
NextStmt(r) ==
    CASE pc[r] = "begin" -> BeginStmt
      [] pc[r] = "header" -> InsertOrderStmt
      [] pc[r] = "detail" -> InsertDetailStmt(orderId[r], Head(pending[r]))
      [] pc[r] = "commit" -> CommitStmt
      [] pc[r] = "rollback" -> RollbackStmt

\* db.execute(...) is called: the statement is on its way to the store
Issue(r) ==
    /\ pc[r] \in {"begin", "header", "detail", "commit", "rollback"}
    /\ inflight[r] = <<>>
    /\ inflight' = [inflight EXCEPT ![r] = Append(@, NextStmt(r))]
    /\ log' = [log EXCEPT ![r] = Append(@, NextStmt(r))]
    /\ UNCHANGED <<committed, working, txOpen, slots, pc, cart, rid, orderId,
                   pending, trace, resp, nreq, readResp, pickVars>>

\* a faulty continuation, which commits before the detail inserts
AfterHeaderCommitFirst(values) == "commit"

\* after the header insert and the reduce: the for loop, or COMMIT at once
AfterHeader(values) == IF values = <<>> THEN "commit" ELSE "detail"

\* after one detail insert: the next iteration, or COMMIT
AfterDetail(rest) == IF rest = <<>> THEN "commit" ELSE "detail"

\* a faulty catch block, which replies without rolling back
CaughtNoRollback(r, at, fault) ==
    /\ pc' = [pc EXCEPT ![r] = "done"]
    /\ resp' = [resp EXCEPT ![r] = FailedToCreate]
    /\ trace' = [trace EXCEPT ![r].failedAt = at,
                              ![r].failedDetail =
                                  IF at = "detail" THEN trace[r].detailsOk + 1 ELSE 0,
                              ![r].faults = @ + (IF fault THEN 1 ELSE 0)]
    /\ UNCHANGED <<orderId, pending>>

\* the catch block is entered from step `at`
Caught(r, at, fault) ==
    /\ pc' = [pc EXCEPT ![r] = "rollback"]
    /\ trace' = [trace EXCEPT ![r].failedAt = at,
                              ![r].failedDetail =
                                  IF at = "detail" THEN trace[r].detailsOk + 1 ELSE 0,
                              ![r].faults = @ + (IF fault THEN 1 ELSE 0)]
    /\ UNCHANGED <<orderId, pending, resp>>

\* the awaited db.execute(...) settles; `fault` is a store failure (network,
\* constraint, ...) of this statement
Settle(r, fault) ==
    /\ inflight[r] # <<>>
    /\ LET stmt == Head(inflight[r])
           ok == ~fault /\ StoreAccepts(stmt)
       IN
       /\ inflight' = [inflight EXCEPT ![r] = Tail(@)]
       /\ IF ok THEN StoreExecute(stmt, rid[r])
                ELSE UNCHANGED <<committed, working, txOpen>>
       /\ CASE stmt.kind = "BEGIN" ->
                IF ok
                THEN /\ pc' = [pc EXCEPT ![r] = "header"]
                     /\ UNCHANGED <<orderId, pending, trace, resp>>
                ELSE Caught(r, "begin", fault)
            [] stmt.kind = "INSERT_ORDER" ->
                IF ok
                THEN LET id == NewOrderId(working)
                         m == mergedCart(cart[r].items)
                     IN /\ orderId' = [orderId EXCEPT ![r] = id]
                        /\ pending' = [pending EXCEPT ![r] = m.values]
                        /\ resp' = resp
                        /\ IF m.thrown
                           THEN /\ pc' = [pc EXCEPT ![r] = "rollback"]
                                /\ trace' = [trace EXCEPT ![r].failedAt = "merge",
                                                          ![r].genId = id,
                                                          ![r].headerOk = TRUE]
                           ELSE /\ pc' = [pc EXCEPT ![r] = AfterHeader(m.values)]
                                /\ trace' = [trace EXCEPT ![r].genId = id,
                                                          ![r].headerOk = TRUE,
                                                          ![r].merged = m.values]
                ELSE Caught(r, "header", fault)
            [] stmt.kind = "INSERT_DETAIL" ->
                IF ok
                THEN /\ pending' = [pending EXCEPT ![r] = Tail(@)]
                     /\ pc' = [pc EXCEPT ![r] = AfterDetail(Tail(pending[r]))]
                     /\ trace' = [trace EXCEPT ![r].detailsOk = @ + 1]
                     /\ UNCHANGED <<orderId, resp>>
                ELSE Caught(r, "detail", fault)
            [] stmt.kind = "COMMIT" ->
                IF ok
                THEN /\ resp' = [resp EXCEPT ![r] = OrderCreated(orderId[r])]
                     /\ pc' = [pc EXCEPT ![r] = "done"]
                     /\ UNCHANGED <<orderId, pending, trace>>
                ELSE Caught(r, "commit", fault)
            [] stmt.kind = "ROLLBACK" ->
                /\ pc' = [pc EXCEPT ![r] = "done"]
                /\ resp' = [resp EXCEPT ![r] =
                              IF ok THEN FailedToCreate ELSE FrameworkError]
                /\ trace' = [trace EXCEPT ![r].rollbackOk = ok,
                                          ![r].faults = @ + (IF fault THEN 1 ELSE 0)]
                /\ UNCHANGED <<orderId, pending>>
    /\ UNCHANGED <<slots, cart, rid, log, nreq, readResp, pickVars>>

-----------------------------------------------------------------------------
(* The catalog: pizza_types and pizzas *)

\* the pizza_type_id of the i-th row of pizza_types
TypeId(i) ==
    CASE i = 1 -> IdA
      [] i = 2 -> IdAB
      [] OTHER -> [j \in 1..i |-> "b"]

\* SELECT ... FROM pizza_types, in the store's row order
PizzaTypeRows == [i \in 1..catalogSize |-> TypeId(i)]

PizzaRow(type, size, price) ==
    [pizza_id |-> PizzaKey(type, toLowerCase(size)), pizza_type_id |-> type,
     size |-> size, price |-> price]

\* the rows of pizzas: pizza_id encodes (pizza_type_id, size)
PizzasTable ==
    { PizzaRow(IdA, SizeM, 10), PizzaRow(IdA, SizeL, 15), PizzaRow(IdAB, SizeM, 12) }

-----------------------------------------------------------------------------
(* Order Reader: GET /api/order?id= and GET /api/past-order/:order_id *)

\* SELECT order_id, date, time FROM orders WHERE order_id = ?
OrderRows(id) == { o \in working.orders : o.order_id = id }

\* a faulty join, which lacks WHERE order_id = ?
OrderItemsOfAllOrders(id) ==
    { [pizzaTypeId |-> p.pizza_type_id, size |-> p.size,
       quantity |-> o.quantity, price |-> p.price,
       total |-> o.quantity * p.price, by |-> o.by] :
        <<o, p>> \in
            { x \in working.details \X PizzasTable :
                /\ x[1].pizza_id = x[2].pizza_id
                /\ \E i \in 1..catalogSize : TypeId(i) = x[2].pizza_type_id } }

\* order_details o JOIN pizzas p ON o.pizza_id = p.pizza_id
\*                 JOIN pizza_types t ON p.pizza_type_id = t.pizza_type_id
\* WHERE order_id = ?
OrderItems(id) ==
    { [pizzaTypeId |-> p.pizza_type_id, size |-> p.size,
       quantity |-> o.quantity, price |-> p.price,
       total |-> o.quantity * p.price, by |-> o.by] :
        <<o, p>> \in
            { x \in working.details \X PizzasTable :
                /\ x[1].order_id = id
                /\ x[1].pizza_id = x[2].pizza_id
                /\ \E i \in 1..catalogSize : TypeId(i) = x[2].pizza_type_id } }

\* items.reduce((acc, item) => acc + item.total, 0)
RECURSIVE Total(_)
Total(items) ==
    IF items = {} THEN 0
    ELSE LET i == CHOOSE x \in items : TRUE
         IN i.total + Total(items \ {i})

ReadResponse(route, id, status, error, hasOrder, items, total, existed, storeOk) ==
    [route |-> route, id |-> id, status |-> status, error |-> error,
     hasOrder |-> hasOrder, items |-> items, total |-> total,
     existed |-> existed, storeOk |-> storeOk]

NoRead == ReadResponse("", 0, 0, "", FALSE, {}, 0, FALSE, FALSE)

\* the response of GET /api/past-order/:order_id; fault1 and fault2 are store
\* failures of its two queries
getPastOrder(id, fault1, fault2) ==
    IF fault1
    THEN ReadResponse("past-order", id, 500, "Failed to fetch order", FALSE, {}, 0,
                      OrderRows(id) # {}, FALSE)
    ELSE IF OrderRows(id) = {}
    THEN ReadResponse("past-order", id, 404, "Order not found", FALSE, {}, 0,
                      FALSE, TRUE)
    ELSE IF fault2
    THEN ReadResponse("past-order", id, 500, "Failed to fetch order", FALSE, {}, 0,
                      TRUE, FALSE)
    ELSE ReadResponse("past-order", id, 200, "", TRUE,
                      OrderItems(id), Total(OrderItems(id)), TRUE, TRUE)

\* the response of GET /api/order?id=; the two queries run under Promise.all
getOrders(id, fault) ==
    IF fault
    THEN ReadResponse("order", id, 500, "Internal Server Error", FALSE, {}, 0,
                      OrderRows(id) # {}, FALSE)
    ELSE ReadResponse("order", id, 200, "", OrderRows(id) # {},
                      OrderItems(id), Total(OrderItems(id)),
                      OrderRows(id) # {}, TRUE)

QueryIds == 1..(MaxRequests + 1)

ReadPastOrder ==
    /\ \E id \in QueryIds, fault1, fault2 \in BOOLEAN :
          readResp' = getPastOrder(id, fault1, fault2)
    /\ UNCHANGED <<orderVars, pickVars>>

ReadOrder ==
    /\ \E id \in QueryIds, fault \in BOOLEAN :
          readResp' = getOrders(id, fault)
    /\ UNCHANGED <<orderVars, pickVars>>

-----------------------------------------------------------------------------
(* Daily Pick Selector: GET /api/pizza-of-the-day *)

MsPerDay == 86400000

\* Date.now()
Now == day * MsPerDay + msOfDay

NaN == -1

\* JavaScript's a % n on non-negative integers
JsMod(a, n) == IF n = 0 THEN NaN ELSE a % n

\* a faulty day count, which rounds to the nearest day
daysSinceEpochRounded(now) == (now + MsPerDay \div 2) \div MsPerDay

\* Math.floor(Date.now() / 86400000)
daysSinceEpoch(now) == now \div MsPerDay

\* SELECT size, price FROM pizzas WHERE pizza_type_id = ?
SizesOf(type) ==
    { <<p.size, p.price>> : p \in { q \in PizzasTable : q.pizza_type_id = type } }

\* the reply, and ghost facts about the run of the handler: the calendar day of
\* the clock, whether the catalog query was answered, whether the index came
\* from a modulo by zero, whether a missing pizza was dereferenced, whether the
\* price query was issued
PickResponse(status, error, id, index, sizes, atDay, catalogRead, modByZero, deref, priceQuery) ==
    [status |-> status, error |-> error, id |-> id, index |-> index,
     sizes |-> sizes, atDay |-> atDay, catalogRead |-> catalogRead,
     modByZero |-> modByZero, deref |-> deref, priceQuery |-> priceQuery]

NoPick == PickResponse(0, "", None, NaN, {}, 0, FALSE, FALSE, FALSE, FALSE)

\* the response of the handler; fault1 and fault2 are store failures of its
\* two queries
PizzaOfTheDay(fault1, fault2) ==
    LET pizzaIndex == JsMod(daysSinceEpoch(Now), catalogSize)
    IN IF fault1
       THEN PickResponse(500, "Internal Server Error", None, NaN, {}, day,
                         FALSE, FALSE, FALSE, FALSE)
       ELSE IF pizzaIndex = NaN
       \* pizzas.rows[NaN] is undefined, and pizza.id throws a TypeError
       THEN PickResponse(500, "Internal Server Error", None, NaN, {}, day,
                         TRUE, TRUE, TRUE, FALSE)
       ELSE IF fault2
       THEN PickResponse(500, "Internal Server Error", None, pizzaIndex, {}, day,
                         TRUE, FALSE, FALSE, TRUE)
       ELSE PickResponse(200, "", PizzaTypeRows[pizzaIndex + 1], pizzaIndex,
                         SizesOf(PizzaTypeRows[pizzaIndex + 1]), day,
                         TRUE, FALSE, FALSE, TRUE)

getPizzaOfTheDay ==
    /\ \E fault1, fault2 \in BOOLEAN :
          pick' = PizzaOfTheDay(fault1, fault2)
    /\ prevPick' = pick
    /\ UNCHANGED <<orderVars, readResp, day, msOfDay, catalogSize>>

\* the instants of a day the clock is sampled at
MsSamples == {0, 1, MsPerDay \div 2, MsPerDay - 1}

\* time passes: to the next sampled instant, or over midnight
Tick ==
    /\ IF msOfDay < MsPerDay - 1
       THEN /\ msOfDay' = CHOOSE m \in MsSamples :
                            /\ m > msOfDay
                            /\ \A n \in MsSamples : n > msOfDay => m <= n
            /\ day' = day
       ELSE /\ day < MaxDays
            /\ msOfDay' = 0
            /\ day' = day + 1
    /\ UNCHANGED <<orderVars, readResp, catalogSize, pick, prevPick>>

-----------------------------------------------------------------------------
(* Specifications *)

Slots == {1, 2}

InitCommon ==
    /\ committed = EmptyRows
    /\ working = EmptyRows
    /\ txOpen = FALSE
    /\ pc = [r \in Slots |-> "idle"]
    /\ cart = [r \in Slots |-> Body("missing", <<>>)]
    /\ rid = [r \in Slots |-> 0]
    /\ orderId = [r \in Slots |-> 0]
    /\ pending = [r \in Slots |-> <<>>]
    /\ inflight = [r \in Slots |-> <<>>]
    /\ log = [r \in Slots |-> <<>>]
    /\ trace = [r \in Slots |-> NoTrace]
    /\ resp = [r \in Slots |-> NoResponse]
    /\ nreq = 0
    /\ readResp = NoRead
    /\ day = 0
    /\ msOfDay = 0
    /\ pick = NoPick
    /\ prevPick = NoPick

\* requests are served one after the other
Init ==
    /\ InitCommon
    /\ slots = {1}
    /\ catalogSize = MaxCatalog

\* two requests may be in progress at once
InitConc ==
    /\ InitCommon
    /\ slots = Slots
    /\ catalogSize = MaxCatalog

InitPick ==
    /\ InitCommon
    /\ slots = {1}
    /\ catalogSize \in 0..MaxCatalog

\* the bodies a request may carry: the last request of a run is arbitrary, the
\* ones before it (which fill the store) come from a few carts
Arriving == IF nreq + 1 < MaxRequests THEN FewCarts ELSE Carts

Next ==
    \/ \E r \in slots : createOrder(r, Arriving)
    \/ \E r \in slots : Issue(r)
    \/ \E r \in slots, fault \in BOOLEAN : Settle(r, fault)

NextFew ==
    \/ \E r \in slots : createOrder(r, FewCarts)
    \/ \E r \in slots : Issue(r)
    \/ \E r \in slots, fault \in BOOLEAN : Settle(r, fault)

NextRead == NextFew \/ ReadPastOrder \/ ReadOrder

NextPick == Tick \/ getPizzaOfTheDay

Spec == Init /\ [][Next]_vars
SpecRead == Init /\ [][NextRead]_vars
SpecConc == InitConc /\ [][NextFew]_vars
SpecPick == InitPick /\ [][NextPick]_vars

-----------------------------------------------------------------------------
(* Helpers of the properties *)

Items(r) == cart[r].items

LineSet(c) == { c[i] : i \in 1..Len(c) }

AllLinesValid(c) == \A l \in LineSet(c) : HasIdAndSize(l)

\* the distinct (pizza id, lowercased size) pairs of a cart
KeyPairs(c) == { <<l.pizza, toLowerCase(l.size)>> : l \in LineSet(c) }

\* the number of cart lines with that pair
CountPair(c, k) ==
    Cardinality({ i \in 1..Len(c) : <<c[i].pizza, toLowerCase(c[i].size)>> = k })

\* the distinct composite key strings of a cart
KeyStrings(c) == { PizzaKey(l.pizza, toLowerCase(l.size)) : l \in LineSet(c) }

CountString(c, s) ==
    Cardinality({ i \in 1..Len(c) : PizzaKey(c[i].pizza, toLowerCase(c[i].size)) = s })

RECURSIVE SumQuantity(_)
SumQuantity(values) ==
    IF values = <<>> THEN 0 ELSE Head(values).quantity + SumQuantity(Tail(values))

\* the rows of a view written by request `by`
RowsBy(rows, by) ==
    { o \in rows.orders : o.by = by } \cup { d \in rows.details : d.by = by }

Finished(r) == r \in slots /\ pc[r] = "done"

\* the handler has computed the merged cart of a cart whose lines are all valid
Merged(r) ==
    /\ r \in slots
    /\ trace[r].headerOk
    /\ AllLinesValid(Items(r))

-----------------------------------------------------------------------------
(* C2: cart normalization *)

\* what C2 says of the quantities: they sum to the number of lines, each is at
\* least 1, and lines whose sizes differ only in letter case share an entry
QuantitiesRight(c, m) ==
    /\ SumQuantity(m) = Len(c)
    /\ \A i \in 1..Len(m) : m[i].quantity >= 1
    /\ \A i, j \in 1..Len(c) :
          (c[i].pizza = c[j].pizza /\ toLowerCase(c[i].size) = toLowerCase(c[j].size))
            => \E e \in 1..Len(m) :
                  /\ m[e].pizzaId = PizzaKey(c[i].pizza, toLowerCase(c[i].size))
                  /\ m[e].quantity >= (IF i = j THEN 1 ELSE 2)

-----------------------------------------------------------------------------
(* C1: order creation is all-or-nothing *)

\* C1: when the store rejects the n-th order_details insert of a request, then
\* after the request has finished no orders row and no order_details row
\* written by that request is durable, and (that insert being the only
\* statement the store failed) none is left in the connection's view either.
C1_FailedDetailLeavesNoRows ==
    \A r \in Slots :
        (Finished(r) /\ trace[r].failedAt = "detail")
            => /\ RowsBy(committed, rid[r]) = {}
               /\ trace[r].faults = 1 => RowsBy(working, rid[r]) = {}

\* the store rejected the 2nd of 3 detail inserts, the request has finished
C1_Witness ==
    \E r \in Slots :
        /\ Finished(r)
        /\ Len(trace[r].merged) = 3
        /\ trace[r].failedAt = "detail"
        /\ trace[r].failedDetail = 2
        /\ trace[r].faults = 1
        /\ resp[r] = FailedToCreate
        /\ working = committed

-----------------------------------------------------------------------------
(* C3: validation precedes every store interaction *)

Malformed(c) == InvalidCart(c) \/ ~AllLinesValid(c.items)

\* C3: for a cart that is missing, not a list, empty, or has a line lacking a
\* pizza identifier or a size, the request issues no store statement and ends
\* with the validation error (HTTP 400).
C3_ValidationBeforeStore ==
    \A r \in Slots :
        (r \in slots /\ pc[r] # "idle" /\ Malformed(cart[r]))
            => /\ log[r] = <<>>
               /\ pc[r] = "done" => resp[r].status = 400

-----------------------------------------------------------------------------
(* C8: a store error rolls back and surfaces the generic failure *)

\* C8: when a store error at BEGIN, the header insert, a detail insert or
\* COMMIT ended the request, a ROLLBACK was issued and the response is the
\* generic failure (500, "Failed to create order"), also when the ROLLBACK
\* itself failed.
C8_RollbackThenGenericFailure ==
    \A r \in Slots :
        (Finished(r) /\ trace[r].failedAt \in {"begin", "header", "detail", "commit"})
            => /\ \E i \in 1..Len(log[r]) : log[r][i] = RollbackStmt
               /\ resp[r] = FailedToCreate

-----------------------------------------------------------------------------
(* C4: reading an order that does not exist *)

\* C4: a read, on either route, that the store answered and that was for an
\* id with no orders row fails with 404 and returns no success payload.
C4_UnknownOrderIsNotFound ==
    (readResp.route # "" /\ readResp.storeOk /\ ~readResp.existed)
        => readResp.status = 404

-----------------------------------------------------------------------------
(* C5: create, then read back *)

InCatalog(l) ==
    /\ \E i \in 1..catalogSize : TypeId(i) = l.pizza
    /\ \E p \in PizzasTable :
          p.pizza_type_id = l.pizza /\ toLowerCase(p.size) = toLowerCase(l.size)

PriceOf(k) ==
    LET p == CHOOSE q \in PizzasTable :
                q.pizza_type_id = k[1] /\ toLowerCase(q.size) = k[2]
    IN p.price

RECURSIVE SumOver(_, _)
SumOver(c, pairs) ==
    IF pairs = {} THEN 0
    ELSE LET k == CHOOSE x \in pairs : TRUE
         IN CountPair(c, k) * PriceOf(k) + SumOver(c, pairs \ {k})

\* the request answered {orderId} for a cart whose lines are all in the catalog
Created(r) ==
    /\ Finished(r)
    /\ resp[r].status = 200
    /\ \A l \in LineSet(Items(r)) : HasIdAndSize(l) /\ InCatalog(l)

\* the payload is the cart's: one item per distinct (pizza id, lowercased
\* size), with the number of lines of that pair, and the total of the items
ReadsBack(c, rd) ==
    /\ rd.status = 200
    /\ rd.hasOrder
    /\ Cardinality(rd.items) = Cardinality(KeyPairs(c))
    /\ \A k \in KeyPairs(c) :
          \E it \in rd.items :
              /\ it.pizzaTypeId = k[1]
              /\ toLowerCase(it.size) = k[2]
              /\ it.quantity = CountPair(c, k)
              /\ it.total = it.quantity * it.price
    /\ rd.total = SumOver(c, KeyPairs(c))

\* C5: after a successful POST /api/order of a valid cart whose pairs are in the
\* catalog, reading the returned orderId (on either route) yields exactly one
\* line item per distinct (pizza id, case-folded size) of the cart, with the
\* number of cart lines of that pair as quantity, and a total equal to the
\* sum of quantity*price over the items.
C5_CreateThenRead ==
    \A r \in Slots :
        Created(r) =>
            /\ ReadsBack(Items(r), getPastOrder(resp[r].orderId, FALSE, FALSE))
            /\ ReadsBack(Items(r), getOrders(resp[r].orderId, FALSE))

\* the spec's example: two lines of one pizza in sizes M and m, and a line of
\* another pizza, read back as two items of total 2*10 + 1*12
C5_Witness ==
    \E r \in Slots :
        /\ Created(r)
        /\ Len(Items(r)) = 3
        /\ Cardinality(KeyPairs(Items(r))) = 2
        /\ Cardinality(getPastOrder(resp[r].orderId, FALSE, FALSE).items) = 2
        /\ getPastOrder(resp[r].orderId, FALSE, FALSE).total = 32
        /\ resp[r].orderId = 2

-----------------------------------------------------------------------------
(* C9: the statements of one request are issued in order, one at a time *)

KindsOf(L) == [i \in 1..Len(L) |-> L[i].kind]

\* C9: the statements of a request are BEGIN, INSERT orders, one INSERT
\* order_details per normalized line, COMMIT, in that order (with ROLLBACK as
\* the last one after a failure): no detail insert is issued before the header
\* insert was answered, every detail insert carries the id of the orders row
\* that header insert wrote, at most one statement is in flight, and COMMIT is
\* issued only after every detail insert succeeded.
C9_StatementsInOrder ==
    \A r \in Slots :
        LET L == log[r]
            m == trace[r].merged
        IN /\ Len(inflight[r]) <= 1
           /\ \A i \in 1..Len(L) :
                 /\ L[i].kind = "BEGIN" => i = 1
                 /\ L[i].kind = "INSERT_ORDER" => i = 2 /\ L[1].kind = "BEGIN"
                 /\ L[i].kind = "INSERT_DETAIL" =>
                       /\ i >= 3 /\ L[2].kind = "INSERT_ORDER"
                       /\ \A j \in 3..i : L[j].kind = "INSERT_DETAIL"
                       /\ trace[r].headerOk
                       /\ trace[r].detailsOk >= i - 3
                       /\ i - 2 <= Len(m)
                       /\ L[i].pizza_id = m[i - 2].pizzaId
                       /\ L[i].quantity = m[i - 2].quantity
                       /\ L[i].order_id = trace[r].genId
                       /\ \A o \in working.orders :
                             o.by = rid[r] => o.order_id = L[i].order_id
                 /\ L[i].kind = "COMMIT" =>
                       /\ i = Len(m) + 3
                       /\ trace[r].detailsOk = Len(m)
                       /\ \A j \in 3..(i - 1) : L[j].kind = "INSERT_DETAIL"
                       /\ L[2].kind = "INSERT_ORDER"
                 /\ L[i].kind = "ROLLBACK" => i = Len(L) /\ trace[r].failedAt # ""
                 /\ (i = Len(L) /\ inflight[r] # <<>>) => inflight[r] = <<L[i]>>

\* a request of three normalized lines has committed
C9_Witness ==
    \E r \in Slots :
        /\ Finished(r)
        /\ resp[r].status = 200
        /\ KindsOf(log[r]) = <<"BEGIN", "INSERT_ORDER", "INSERT_DETAIL",
                               "INSERT_DETAIL", "INSERT_DETAIL", "COMMIT">>

-----------------------------------------------------------------------------
(* C10: concurrent order creations *)

\* C10: whatever the interleaving of the statements of two requests (here:
\* even when all lines are valid and the store fails no statement on its
\* own), a finished request that answered {orderId} has its orders row and all
\* its order_details rows durable, and one that answered an error has no
\* durable row.
C10_RequestsIsolated ==
    \A r \in Slots :
        (/\ Finished(r) /\ log[r] # <<>>
         /\ \A q \in Slots : trace[q].faults = 0 /\ AllLinesValid(Items(q)))
            => IF resp[r].status = 200
               THEN /\ \E o \in committed.orders :
                          o.by = rid[r] /\ o.order_id = resp[r].orderId
                    /\ Cardinality({ d \in committed.details :
                                       d.by = rid[r] /\ d.order_id = resp[r].orderId })
                          = Len(trace[r].merged)
               ELSE RowsBy(committed, rid[r]) = {}

-----------------------------------------------------------------------------
(* C6: the daily pick *)

Picked(p) == p.status = 200

\* C6: a pick of the catalog of size N >= 1 has index (calendar day) mod N; two
\* consecutive picks on the same UTC day have the same index (and pizza), and
\* from one day to the next the index goes from i to (i + 1) mod N.
C6_DailyPick ==
    /\ Picked(pick) =>
          /\ catalogSize >= 1
          /\ pick.index = pick.atDay % catalogSize
          /\ pick.id = PizzaTypeRows[pick.index + 1]
    /\ (Picked(pick) /\ Picked(prevPick)) =>
          /\ pick.atDay = prevPick.atDay =>
                pick.index = prevPick.index /\ pick.id = prevPick.id
          /\ pick.atDay = prevPick.atDay + 1 =>
                pick.index = (prevPick.index + 1) % catalogSize

\* a pick late on one day and the next pick early on the following day, the
\* index wrapping around from N - 1 to 0
C6_Witness ==
    /\ Picked(pick) /\ Picked(prevPick)
    /\ catalogSize >= 2
    /\ pick.atDay = prevPick.atDay + 1
    /\ prevPick.index = catalogSize - 1
    /\ pick.index = 0
    /\ msOfDay = MsPerDay - 1

-----------------------------------------------------------------------------
(* C7: the daily pick of an empty catalog *)

\* C7: with an empty catalog, a pick whose catalog query the store answered
\* fails with the explicit EmptyCatalog error, without a modulo by zero,
\* without dereferencing a missing pizza and without a price query.
C7_EmptyCatalogIsExplicit ==
    (pick.status # 0 /\ pick.catalogRead /\ catalogSize = 0)
        => /\ pick.error = "EmptyCatalog"
           /\ ~pick.modByZero
           /\ ~pick.deref
           /\ ~pick.priceQuery

====
